---- MODULE Spec2Model ----
(***************************************************************************)
(* Trading-card-game REST backend: sign-up / sign-in, the bearer-token     *)
(* gate, and the deck create / list / get / update / delete workflow over  *)
(* the relational store.  Every request is a process; every store call     *)
(* (one Prisma call) is one atomic step, and requests interleave at their  *)
(* awaits.  The loading of index.ts, which starts the listeners, is the    *)
(* process of the variable server.                                         *)
(***************************************************************************)
EXTENDS Integers, Sequences, FiniteSets, TLC

\* ------------------------------------------------------------------ bounds
\* Number of requests handled in one behaviour (each by its own process), by
\* specification: of concurrent deck requests, of requests passing the gate while
\* time passes, of requests compared pairwise, of requests with malformed bodies,
\* of requests sent one after the other.
MaxReqs == 2

GateReqs == 1

PairReqs == 2

BodyReqs == 1

SeqReqs == 2
\* Size of the card catalog (cards 1..NumCards exist).
NumCards == 20
\* How many times the clock advances.
MaxTicks == 2

\* ------------------------------------------------------- program constants
\* A deck holds exactly this many cards.
DeckSize == 10
\* Token lifetime in days (expiresIn: '7d').
TokenDays == 7
\* The port listened on when PORT is not set.
DefaultPort == 3000

CardIds == 1..NumCards

VARIABLES
    users,      \* table User: sequence of rows, id = index
    decks,      \* table Deck: set of rows [id, name, userId]
    deckCards,  \* table DeckCard: deck id -> card ids of its rows, in storage order
    nextDeckId, \* autoincrement counter of Deck.id
    schema,     \* the referential rules of the store's schema
    now,        \* clock, in days
    ticks,      \* number of clock advances so far
    req,        \* the requests: process -> request record
    server      \* the process that loaded index.ts: its position, its listeners

vars == <<users, decks, deckCards, nextDeckId, schema, now, ticks, req, server>>

Procs == DOMAIN req

\* ------------------------------------------------------------ JS values
Undefined == [t |-> "undefined"]
Str(chars) == [t |-> "string", v |-> chars]
Arr(seq) == [t |-> "array", v |-> seq]

\* !x for the values modelled here: undefined and "" are falsy.
Falsy(x) == x.t = "undefined" \/ (x.t = "string" /\ x.v = <<>>)

isArray(x) == x.t = "array"

\* Number of elements of an array, of characters of a string.
length(x) == IF x.t = "undefined" THEN 0 ELSE Len(x.v)

RECURSIVE trimStart(_)
trimStart(s) ==
    IF s # <<>> /\ Head(s) = " " THEN trimStart(Tail(s)) ELSE s

RECURSIVE trimEnd(_)
trimEnd(s) ==
    IF s # <<>> /\ s[Len(s)] = " " THEN trimEnd(SubSeq(s, 1, Len(s) - 1)) ELSE s

\* Mutant of trim: nothing is removed.
trim_nothing(s) == s

\* String.prototype.trim on a sequence of characters.
trim(s) == trimEnd(trimStart(s))

Range(s) == {s[i] : i \in 1..Len(s)}

\* [...new Set(cardIds)]: the distinct elements, first occurrences in order.
RECURSIVE uniqueOf(_)
uniqueOf(s) ==
    IF s = <<>> THEN <<>>
    ELSE LET init == uniqueOf(SubSeq(s, 1, Len(s) - 1))
             last == s[Len(s)]
         IN  IF last \in Range(init) THEN init ELSE Append(init, last)

Digits == <<"0", "1", "2", "3", "4", "5", "6", "7", "8", "9">>

DigitVal(c) == (CHOOSE i \in 1..10 : Digits[i] = c) - 1

IsDigit(c) == \E i \in 1..10 : Digits[i] = c

NaN == -1

\* parseInt on a sequence of characters holding no sign: the value of the longest
\* prefix of digits, NaN when the first character is no digit.
RECURSIVE parseDigits(_, _)
parseDigits(s, acc) ==
    IF s = <<>> \/ ~IsDigit(Head(s)) THEN acc
    ELSE parseDigits(Tail(s), acc * 10 + DigitVal(Head(s)))

parseInt(s) ==
    LET t == trimStart(s)
    IN  IF t = <<>> \/ ~IsDigit(Head(t)) THEN NaN ELSE parseDigits(t, 0)

isNaN(n) == n = NaN

Chars(s) ==
    CASE s = "Deck name is required" ->
        <<"D","e","c","k"," ","n","a","m","e"," ","i","s"," ","r","e","q","u","i","r","e","d">>
      [] s = "Exactly 10 cards are required" ->
        <<"E","x","a","c","t","l","y"," ","1","0"," ","c","a","r","d","s"," ","a","r","e"," ","r","e","q","u","i","r","e","d">>
      [] s = "Duplicate card IDs are not allowed" ->
        <<"D","u","p","l","i","c","a","t","e"," ","c","a","r","d"," ","I","D","s"," ","a","r","e"," ","n","o","t"," ","a","l","l","o","w","e","d">>
      [] s = "Some card IDs are invalid" ->
        <<"S","o","m","e"," ","c","a","r","d"," ","I","D","s"," ","a","r","e"," ","i","n","v","a","l","i","d">>
      [] s = "Deck not found" ->
        <<"D","e","c","k"," ","n","o","t"," ","f","o","u","n","d">>
      [] s = "Deck name cannot be empty" ->
        <<"D","e","c","k"," ","n","a","m","e"," ","c","a","n","n","o","t"," ","b","e"," ","e","m","p","t","y">>
      [] s = "An operation failed because it depends on one or more records that were required but not found." ->
        <<"A","n"," ","o","p","e","r","a","t","i","o","n"," ","f","a","i","l","e","d"," ","b","e","c","a","u","s","e"," ","i","t"," ","d","e","p","e","n","d","s"," ","o","n"," ","o","n","e"," ","o","r"," ","m","o","r","e"," ","r","e","c","o","r","d","s"," ","t","h","a","t"," ","w","e","r","e"," ","r","e","q","u","i","r","e","d"," ","b","u","t"," ","n","o","t"," ","f","o","u","n","d",".">>
      [] s = "No record was found for an update." ->
        <<"N","o"," ","r","e","c","o","r","d"," ","w","a","s"," ","f","o","u","n","d"," ","f","o","r"," ","a","n"," ","u","p","d","a","t","e",".">>
      [] s = "Unique constraint failed on the fields: (deckId,cardId)" ->
        <<"U","n","i","q","u","e"," ","c","o","n","s","t","r","a","i","n","t"," ","f","a","i","l","e","d"," ","o","n"," ","t","h","e"," ","f","i","e","l","d","s",":"," ","(","d","e","c","k","I","d",",","c","a","r","d","I","d",")">>
      [] s = "Unique constraint failed on the fields: (email)" ->
        <<"U","n","i","q","u","e"," ","c","o","n","s","t","r","a","i","n","t"," ","f","a","i","l","e","d"," ","o","n"," ","t","h","e"," ","f","i","e","l","d","s",":"," ","(","e","m","a","i","l",")">>
      [] s = "Foreign key constraint violated" ->
        <<"F","o","r","e","i","g","n"," ","k","e","y"," ","c","o","n","s","t","r","a","i","n","t"," ","v","i","o","l","a","t","e","d">>
      [] s = "Can't reach database server" ->
        <<"C","a","n","'","t"," ","r","e","a","c","h"," ","d","a","t","a","b","a","s","e"," ","s","e","r","v","e","r">>
      [] s = "The provided database string is invalid." ->
        <<"T","h","e"," ","p","r","o","v","i","d","e","d"," ","d","a","t","a","b","a","s","e"," ","s","t","r","i","n","g"," ","i","s"," ","i","n","v","a","l","i","d",".">>
      [] s = "required" ->
        <<"r","e","q","u","i","r","e","d">>
      [] s = "10 cards" ->
        <<"1","0"," ","c","a","r","d","s">>
      [] s = "invalid" ->
        <<"i","n","v","a","l","i","d">>
      [] s = "duplicate" ->
        <<"d","u","p","l","i","c","a","t","e">>
      [] s = "empty" ->
        <<"e","m","p","t","y">>
      [] s = "not found" ->
        <<"n","o","t"," ","f","o","u","n","d">>

\* String.prototype.includes, case-sensitive, on the characters of both strings.
includes(msg, kw) ==
    LET m == Chars(msg)
        k == Chars(kw)
    IN  \E i \in 1..(Len(m) - Len(k) + 1) : SubSeq(m, i, i + Len(k) - 1) = k


\* ------------------------------------------------------------ the store
Null == [t |-> "null"]

\* Messages of the exceptions the store client throws.
RecordNotFound ==
    {"An operation failed because it depends on one or more records that were required but not found.",
     "No record was found for an update."}

UniqueDeckCard == "Unique constraint failed on the fields: (deckId,cardId)"

UniqueEmail == "Unique constraint failed on the fields: (email)"

ForeignKey == "Foreign key constraint violated"

Unreachable == "Can't reach database server"

\* The client cannot use the connection string it was configured with.
InvalidDatabaseString == "The provided database string is invalid."

\* Every message the store throws in this model.
StoreMessages ==
    RecordNotFound \cup
        {UniqueDeckCard, UniqueEmail, ForeignKey, Unreachable, InvalidDatabaseString}

\* The referential rules the schema may declare for DeckCard: whether a
\* (deckId, cardId) pair is unique, and whether deleting a deck cascades to its rows.
SchemaOptions == [pairUnique : BOOLEAN, onDeleteCascade : BOOLEAN]

rowsOf(deckId) == IF deckId \in DOMAIN deckCards THEN deckCards[deckId] ELSE <<>>

\* A deck row with include: { deckCards: { include: { card: true } } }.
DeckView(d) ==
    [t |-> "deck", id |-> d.id, name |-> d.name, userId |-> d.userId,
     deckCards |-> rowsOf(d.id)]

RECURSIVE SortById(_)
SortById(S) ==
    IF S = {} THEN <<>>
    ELSE LET m == CHOOSE x \in S : \A y \in S : x.id <= y.id
         IN  <<m>> \o SortById(S \ {m})

Unchanged == [decks |-> decks, deckCards |-> deckCards, nextDeckId |-> nextDeckId]

Thrown(msg) == [err |-> msg, ret |-> Null, db |-> Unchanged]

Returned(v, db) == [err |-> "", ret |-> v, db |-> db]

\* Mutant of DeckRepository_createDeck: the rows stored are those of the first ten cards.
DeckRepository_createDeck_firstCards(userId, name, cardIds) ==
    LET row == [id |-> nextDeckId, name |-> name, userId |-> userId]
        first == [i \in 1..DeckSize |-> i]
    IN  Returned([t |-> "deck", id |-> row.id, name |-> name, userId |-> userId,
                  deckCards |-> first],
                 [decks |-> decks \cup {row},
                  deckCards |-> [d \in DOMAIN deckCards \cup {nextDeckId} |->
                                   IF d = nextDeckId THEN first ELSE deckCards[d]],
                  nextDeckId |-> nextDeckId + 1])

\* DeckRepository.createDeck: the deck row and its association rows, one nested write.
DeckRepository_createDeck(userId, name, cardIds) ==
    IF Len(cardIds) # DeckSize THEN Thrown("Exactly 10 cards are required")
    ELSE IF ~(Range(cardIds) \subseteq CardIds) THEN Thrown(ForeignKey)
    ELSE LET row == [id |-> nextDeckId, name |-> name, userId |-> userId]
         IN  Returned([t |-> "deck", id |-> row.id, name |-> name, userId |-> userId,
                       deckCards |-> cardIds],
                      [decks |-> decks \cup {row},
                       deckCards |-> [d \in DOMAIN deckCards \cup {nextDeckId} |->
                                        IF d = nextDeckId THEN cardIds ELSE deckCards[d]],
                       nextDeckId |-> nextDeckId + 1])

\* DeckRepository.getUserDecks
DeckRepository_getUserDecks(userId) ==
    SortById({DeckView(d) : d \in {x \in decks : x.userId = userId}})

\* Mutant of DeckRepository_getDeckByIdAndUser: the owner is not part of the filter.
DeckRepository_getDeckByIdAndUser_anyOwner(deckId, userId) ==
    LET found == {d \in decks : d.id = deckId}
    IN  IF found = {} THEN Null ELSE DeckView(CHOOSE d \in found : TRUE)

\* DeckRepository.getDeckByIdAndUser
DeckRepository_getDeckByIdAndUser(deckId, userId) ==
    LET found == {d \in decks : d.id = deckId /\ d.userId = userId}
    IN  IF found = {} THEN Null ELSE DeckView(CHOOSE d \in found : TRUE)

\* prisma.deckCard.deleteMany({ where: { deckId } })
deckCard_deleteMany(deckId) ==
    [decks |-> decks,
     deckCards |-> [d \in DOMAIN deckCards |-> IF d = deckId THEN <<>> ELSE deckCards[d]],
     nextDeckId |-> nextDeckId]

\* prisma.deck.update({ where: { id, userId }, data: { name, deckCards: { create } } })
deck_update(deckId, userId, name, cardIds, msg) ==
    LET found == {d \in decks : d.id = deckId /\ d.userId = userId}
    IN  IF found = {} THEN Thrown(msg)
        ELSE IF ~(Range(cardIds) \subseteq CardIds) THEN Thrown(ForeignKey)
        ELSE IF schema.pairUnique /\ Range(cardIds) \cap Range(rowsOf(deckId)) # {}
        THEN Thrown(UniqueDeckCard)
        ELSE LET old == CHOOSE d \in found : TRUE
                 row == [old EXCEPT !.name = name]
                 rows == rowsOf(deckId) \o cardIds
             IN  Returned([t |-> "deck", id |-> deckId, name |-> name, userId |-> userId,
                           deckCards |-> rows],
                          [decks |-> (decks \ {old}) \cup {row},
                           deckCards |-> [deckCards EXCEPT ![deckId] = rows],
                           nextDeckId |-> nextDeckId])

\* Mutant of deck_delete: the deck row is returned and left in the table.
deck_delete_keepsRow(deckId, userId, msg) ==
    LET found == {d \in decks : d.id = deckId /\ d.userId = userId}
    IN  IF found = {} THEN Thrown(msg)
        ELSE Returned(CHOOSE d \in found : TRUE, Unchanged)

\* prisma.deck.delete({ where: { id, userId } })
deck_delete(deckId, userId, msg) ==
    LET found == {d \in decks : d.id = deckId /\ d.userId = userId}
    IN  IF found = {} THEN Thrown(msg)
        ELSE IF rowsOf(deckId) # <<>> /\ ~schema.onDeleteCascade THEN Thrown(ForeignKey)
        ELSE Returned(CHOOSE d \in found : TRUE,
                      [decks |-> decks \ found,
                       deckCards |-> [deckCards EXCEPT ![deckId] = <<>>],
                       nextDeckId |-> nextDeckId])

\* Mutant of DeckRepository_validateCardIds: every id asked for is reported.
DeckRepository_validateCardIds_all(cardIds) == Range(cardIds)

\* DeckRepository.validateCardIds: the ids among cardIds that are ids of cards.
DeckRepository_validateCardIds(cardIds) == Range(cardIds) \cap CardIds

\* ------------------------------------------------------------ responses
Json(status, body) == [status |-> status, body |-> body]

ErrorBody(msg) == [error |-> msg]

InternalError == Json(500, ErrorBody("Internal server error"))

ValidationKeywords == {"required", "10 cards", "invalid", "duplicate"}

\* Mutant of createDeck_catch: every exception is an internal error.
createDeck_catch_always500(msg) == InternalError

\* catch block of the createDeck controller
createDeck_catch(msg) ==
    IF \E kw \in ValidationKeywords : includes(msg, kw)
    THEN Json(400, ErrorBody(msg))
    ELSE InternalError

\* catch block of the getDeckById and deleteDeck controllers
getDeckById_catch(msg) ==
    IF includes(msg, "not found") THEN Json(404, ErrorBody("Deck not found"))
    ELSE InternalError

\* catch block of the updateDeck controller
updateDeck_catch(msg) ==
    IF includes(msg, "not found") THEN Json(404, ErrorBody("Deck not found"))
    ELSE IF \E kw \in ValidationKeywords \cup {"empty"} : includes(msg, kw)
    THEN Json(400, ErrorBody(msg))
    ELSE InternalError

\* ------------------------------------------------------------ validation
\* DeckService.createDeck up to its first store call: the message thrown, "" if none.
createDeck_validate(name, cardIds) ==
    IF Falsy(name) \/ Len(trim(name.v)) = 0 THEN "Deck name is required"
    ELSE IF Falsy(cardIds) \/ ~isArray(cardIds) \/ length(cardIds) # DeckSize
    THEN "Exactly 10 cards are required"
    ELSE IF Len(uniqueOf(cardIds.v)) # Len(cardIds.v)
    THEN "Duplicate card IDs are not allowed"
    ELSE ""

\* DeckService.updateDeck between its ownership lookup and its next store call.
updateDeck_validate(finalName, cardIds) ==
    IF Falsy(finalName) \/ Len(trim(finalName.v)) = 0 THEN "Deck name cannot be empty"
    ELSE IF cardIds.t = "undefined" THEN ""
    ELSE IF ~isArray(cardIds) \/ length(cardIds) # DeckSize
    THEN "Exactly 10 cards are required"
    ELSE IF Len(uniqueOf(cardIds.v)) # Len(cardIds.v)
    THEN "Duplicate card IDs are not allowed"
    ELSE ""

\* ------------------------------------------------------------ auth
JWT_SECRET == "env.JWT_SECRET"

\* jwt.sign({ userId, email }, secret, { expiresIn: '7d' }) at time t
jwt_sign(userId, email, secret, t) ==
    [userId |-> userId, email |-> email, iat |-> t, exp |-> t + TokenDays, key |-> secret]

\* Mutant of jwt_verify: the expiry is not checked.
jwt_verify_ignoreExpiration(token, secret, t) == token.key = secret

\* jwt.verify: the signature is the secret's and the token has not expired.
jwt_verify(token, secret, t) == token.key = secret /\ t < token.exp

\* bcrypt.hash(password, 10) with the salt drawn
bcrypt_hash(password, salt) == [salt |-> salt, digest |-> <<salt, password>>]

bcrypt_compare(password, hash) == hash.digest = <<hash.salt, password>>

NoHeader == [t |-> "undefined"]

Header(words) == [t |-> "string", words |-> words]

Bearer(token) == Header(<<"Bearer", token>>)

\* authHeader && authHeader.split(' ')[1]
tokenOf(authHeader) ==
    IF authHeader.t = "undefined" THEN Undefined
    ELSE IF Len(authHeader.words) < 2 THEN Undefined
    ELSE [t |-> "token", v |-> authHeader.words[2]]

\* authenticateToken: next() with req.user set, or a 401.
authenticateToken(authHeader, t) ==
    LET token == tokenOf(authHeader)
    IN  IF token.t = "undefined"
        THEN [next |-> FALSE, resp |-> Json(401, ErrorBody("Token manquant")), user |-> Null]
        ELSE IF jwt_verify(token.v, JWT_SECRET, t)
        THEN [next |-> TRUE, resp |-> Null,
              user |-> [t |-> "user", userId |-> token.v.userId, email |-> token.v.email]]
        ELSE [next |-> FALSE, resp |-> Json(401, ErrorBody("Token invalide ou expiré")),
              user |-> Null]

\* prisma.user.findUnique({ where: { email } })
user_findUnique(email) ==
    LET found == {i \in 1..Len(users) : users[i].email = email}
    IN  IF found = {} THEN Null ELSE users[CHOOSE i \in found : TRUE]

\* The public projection of a user row.
PublicUser(u) ==
    [id |-> u.id, email |-> u.email, username |-> u.username, createdAt |-> u.createdAt]

\* ------------------------------------------------------------ requests
Idle ==
    [pc |-> "idle", kind |-> "none", in |-> Null, user |-> Null, loc |-> Null,
     resp |-> Null, calls |-> 0, writes |-> 0, seen |-> "none", at |-> 0, threw |-> "",
     before |-> Null]

\* Requests arrive in process order.
CanArrive(p) ==
    req[p].pc = "idle" /\ (IF p = 1 THEN TRUE ELSE req[p - 1].pc # "idle")

Arrived(kind, in) == [Idle EXCEPT !.kind = kind, !.in = in, !.at = now]

Done(r, resp) == [r EXCEPT !.pc = "done", !.resp = resp]

\* The request answered from a catch block; threw keeps the message when the
\* exception caught is one the store threw.
Caught(r, msg, resp) ==
    Done([r EXCEPT !.threw = IF msg \in StoreMessages THEN msg ELSE @], resp)

\* One more store call issued by the request, a mutating one when w = 1.
Called(r, w) == [r EXCEPT !.calls = @ + 1, !.writes = @ + w]

\* The tokens a client can present: signed by the server for a user since the
\* account exists, or signed with another secret.
Tokens(I) ==
    {jwt_sign(users[i].id, users[i].email, k, t) :
        i \in {x \in I.subjects : x <= Len(users)}, k \in I.keys,
        t \in {x \in I.iats : x <= now}}

Headers(I) == I.headers \cup {Bearer(tok) : tok \in Tokens(I)}

\* A request as the handler receives it: req.user is what the gate attached.
Admitted(kind, in) ==
    [Arrived(kind, in) EXCEPT !.user = authenticateToken(in.authorization, now).user]

\* deckRouter.use(authenticateToken): the gate, then the handler up to its first
\* await; handled is the request as the handler leaves it there.
Gate(p, kind, in, handled) ==
    LET auth == authenticateToken(in.authorization, now)
    IN  /\ CanArrive(p)
        /\ req' = [req EXCEPT ![p] =
                IF auth.next THEN handled ELSE Done(Arrived(kind, in), auth.resp)]
        /\ UNCHANGED <<users, decks, deckCards, nextDeckId, schema, now, ticks, server>>

SetDb(db) ==
    /\ decks' = db.decks
    /\ deckCards' = db.deckCards
    /\ nextDeckId' = db.nextDeckId

\* ---- POST /api/decks
createDeck_start(r) ==
    LET err == createDeck_validate(r.in.name, r.in.cards)
    IN  IF err # "" THEN Done(r, createDeck_catch(err))
        ELSE [r EXCEPT !.pc = "create.validateCardIds"]

POST_decks(p, I) ==
    \E h \in Headers(I), name \in I.names, cards \in I.cardsCreate :
        LET in == [authorization |-> h, name |-> name, cards |-> cards]
        IN  Gate(p, "create", in, createDeck_start(Admitted("create", in)))

createDeck_validateCardIds(p, I) ==
    /\ req[p].pc = "create.validateCardIds"
    /\ \E out \in I.outcomes :
        LET r == Called(req[p], 0)
            existingCardIds == DeckRepository_validateCardIds(r.in.cards.v)
        IN  req' = [req EXCEPT ![p] =
                IF out # "ok" THEN Caught(r, out, createDeck_catch(out))
                ELSE IF Cardinality(existingCardIds) # Len(r.in.cards.v)
                THEN Done(r, createDeck_catch("Some card IDs are invalid"))
                ELSE [r EXCEPT !.pc = "create.create"]]
    /\ UNCHANGED <<users, decks, deckCards, nextDeckId, schema, now, ticks, server>>

createDeck_create(p, I) ==
    /\ req[p].pc = "create.create"
    /\ \E out \in I.outcomes :
        LET r == Called(req[p], 1)
            res == IF out # "ok" THEN Thrown(out)
                   ELSE DeckRepository_createDeck(r.user.userId, trim(r.in.name.v),
                                                  r.in.cards.v)
        IN  /\ SetDb(res.db)
            /\ req' = [req EXCEPT ![p] =
                    IF res.err # "" THEN Caught(r, res.err, createDeck_catch(res.err))
                    ELSE Done(r, Json(201, res.ret))]
    /\ UNCHANGED <<users, schema, now, ticks, server>>

\* ---- GET /api/decks/mine
getUserDecks_start(r) == [r EXCEPT !.pc = "list.findMany"]

GET_mine(p, I) ==
    \E h \in Headers(I) :
        LET in == [authorization |-> h]
        IN  Gate(p, "list", in, getUserDecks_start(Admitted("list", in)))

getUserDecks_findMany(p, I) ==
    /\ req[p].pc = "list.findMany"
    /\ \E out \in I.outcomes :
        LET r == Called(req[p], 0)
        IN  req' = [req EXCEPT ![p] =
                IF out # "ok" THEN Caught(r, out, InternalError)
                ELSE Done(r, Json(200, DeckRepository_getUserDecks(r.user.userId)))]
    /\ UNCHANGED <<users, decks, deckCards, nextDeckId, schema, now, ticks, server>>

\* ---- GET /api/decks/:id
byId_start(r) ==
    IF isNaN(parseInt(r.in.id)) THEN Done(r, Json(400, ErrorBody("Invalid deck ID")))
    ELSE [r EXCEPT !.pc = "findFirst", !.loc = [deckId |-> parseInt(r.in.id)]]

GET_deck(p, I) ==
    \E h \in Headers(I), id \in I.ids :
        LET in == [authorization |-> h, id |-> id]
        IN  Gate(p, "get", in, byId_start(Admitted("get", in)))

\* What the ownership lookup met: the caller's deck, another user's, or none.
Seen(deckId, userId) ==
    IF \E d \in decks : d.id = deckId /\ d.userId = userId THEN "own"
    ELSE IF \E d \in decks : d.id = deckId THEN "foreign"
    ELSE "absent"

Looked(r, out) ==
    [Called(r, 0) EXCEPT
        !.seen = IF out = "ok" THEN Seen(r.loc.deckId, r.user.userId) ELSE "error"]

getDeckById_findFirst(p, I) ==
    /\ req[p].pc = "findFirst"
    /\ req[p].kind = "get"
    /\ \E out \in I.outcomes :
        LET r == Looked(req[p], out)
            deck == DeckRepository_getDeckByIdAndUser(r.loc.deckId, r.user.userId)
        IN  req' = [req EXCEPT ![p] =
                IF out # "ok" THEN Caught(r, out, getDeckById_catch(out))
                ELSE IF deck.t = "null" THEN Done(r, getDeckById_catch("Deck not found"))
                ELSE Done(r, Json(200, deck))]
    /\ UNCHANGED <<users, decks, deckCards, nextDeckId, schema, now, ticks, server>>

\* ---- PATCH /api/decks/:id
PATCH_deck(p, I) ==
    \E h \in Headers(I), id \in I.ids, name \in I.names, cards \in I.cardsUpdate :
        LET in == [authorization |-> h, id |-> id, name |-> name, cards |-> cards]
        IN  Gate(p, "update", in, byId_start(Admitted("update", in)))

\* DeckRepository.updateDeck up to its first store call: the message thrown, "" if none.
DeckRepository_updateDeck_check(cardIds) ==
    IF Len(cardIds) # DeckSize THEN "Exactly 10 cards are required" ELSE ""

\* Mutant of finalNameOf: a name that is not provided becomes the starter name.
finalNameOf_default(name, existingDeck) ==
    IF name.t # "undefined" THEN name ELSE Str(<<"S", "t", "a", "r", "t", "e", "r">>)

\* name !== undefined ? name : existingDeck.name
finalNameOf(name, existingDeck) ==
    IF name.t # "undefined" THEN name ELSE Str(existingDeck.name)

\* DeckService.updateDeck from the ownership lookup to the next store call; before
\* keeps the deck as the lookup returned it.
updateDeck_afterLookup(r0, existingDeck) ==
    LET r == [r0 EXCEPT !.before = [name |-> existingDeck.name,
                                    cards |-> existingDeck.deckCards]]
        finalName == finalNameOf(r.in.name, existingDeck)
        err == updateDeck_validate(finalName, r.in.cards)
        kept == existingDeck.deckCards
    IN  IF err # "" THEN Done(r, updateDeck_catch(err))
        ELSE IF r.in.cards.t # "undefined"
        THEN [r EXCEPT !.pc = "update.validateCardIds",
                       !.loc = [deckId |-> r.loc.deckId, finalName |-> trim(finalName.v),
                                finalCardIds |-> r.in.cards.v]]
        ELSE IF DeckRepository_updateDeck_check(kept) # ""
        THEN Done(r, updateDeck_catch(DeckRepository_updateDeck_check(kept)))
        ELSE [r EXCEPT !.pc = "update.deleteMany",
                       !.loc = [deckId |-> r.loc.deckId, finalName |-> trim(finalName.v),
                                finalCardIds |-> kept]]

\* Mutant of updateDeck_findFirst: the body is validated before the deck is
\* found missing.
updateDeck_findFirst_validatesFirst(p, I) ==
    /\ req[p].pc = "findFirst"
    /\ req[p].kind = "update"
    /\ \E out \in I.outcomes :
        LET r == Looked(req[p], out)
            existingDeck == DeckRepository_getDeckByIdAndUser(r.loc.deckId, r.user.userId)
            err == updateDeck_validate(
                       IF r.in.name.t # "undefined" THEN r.in.name ELSE Str(<<"n">>),
                       r.in.cards)
        IN  req' = [req EXCEPT ![p] =
                IF out # "ok" THEN Caught(r, out, updateDeck_catch(out))
                ELSE IF err # "" THEN Done(r, updateDeck_catch(err))
                ELSE IF existingDeck.t = "null"
                THEN Done(r, updateDeck_catch("Deck not found"))
                ELSE updateDeck_afterLookup(r, existingDeck)]
    /\ UNCHANGED <<users, decks, deckCards, nextDeckId, schema, now, ticks, server>>

updateDeck_findFirst(p, I) ==
    /\ req[p].pc = "findFirst"
    /\ req[p].kind = "update"
    /\ \E out \in I.outcomes :
        LET r == Looked(req[p], out)
            existingDeck == DeckRepository_getDeckByIdAndUser(r.loc.deckId, r.user.userId)
        IN  req' = [req EXCEPT ![p] =
                IF out # "ok" THEN Caught(r, out, updateDeck_catch(out))
                ELSE IF existingDeck.t = "null"
                THEN Done(r, updateDeck_catch("Deck not found"))
                ELSE updateDeck_afterLookup(r, existingDeck)]
    /\ UNCHANGED <<users, decks, deckCards, nextDeckId, schema, now, ticks, server>>

updateDeck_validateCardIds(p, I) ==
    /\ req[p].pc = "update.validateCardIds"
    /\ \E out \in I.outcomes :
        LET r == Called(req[p], 0)
            existingCardIds == DeckRepository_validateCardIds(r.in.cards.v)
        IN  req' = [req EXCEPT ![p] =
                IF out # "ok" THEN Caught(r, out, updateDeck_catch(out))
                ELSE IF Cardinality(existingCardIds) # Len(r.in.cards.v)
                THEN Done(r, updateDeck_catch("Some card IDs are invalid"))
                ELSE IF DeckRepository_updateDeck_check(r.loc.finalCardIds) # ""
                THEN Done(r, updateDeck_catch(
                              DeckRepository_updateDeck_check(r.loc.finalCardIds)))
                ELSE [r EXCEPT !.pc = "update.deleteMany"]]
    /\ UNCHANGED <<users, decks, deckCards, nextDeckId, schema, now, ticks, server>>

\* DeckRepository.updateDeck, first store call: the old association rows go.
updateDeck_deleteMany(p, I) ==
    /\ req[p].pc = "update.deleteMany"
    /\ \E out \in I.outcomes :
        LET r == Called(req[p], 1)
        IN  /\ SetDb(IF out # "ok" THEN Unchanged ELSE deckCard_deleteMany(r.loc.deckId))
            /\ req' = [req EXCEPT ![p] =
                    IF out # "ok" THEN Caught(r, out, updateDeck_catch(out))
                    ELSE [r EXCEPT !.pc = "update.update"]]
    /\ UNCHANGED <<users, schema, now, ticks, server>>

\* DeckRepository.updateDeck, second store call: the name and the new association rows.
updateDeck_update(p, I) ==
    /\ req[p].pc = "update.update"
    /\ \E out \in I.outcomes, msg \in RecordNotFound :
        LET r == Called(req[p], 1)
            res == IF out # "ok" THEN Thrown(out)
                   ELSE deck_update(r.loc.deckId, r.user.userId, r.loc.finalName,
                                    r.loc.finalCardIds, msg)
        IN  /\ SetDb(res.db)
            /\ req' = [req EXCEPT ![p] =
                    IF res.err # "" THEN Caught(r, res.err, updateDeck_catch(res.err))
                    ELSE Done(r, Json(200, res.ret))]
    /\ UNCHANGED <<users, schema, now, ticks, server>>

\* ---- DELETE /api/decks/:id
DELETE_deck(p, I) ==
    \E h \in Headers(I), id \in I.ids :
        LET in == [authorization |-> h, id |-> id]
        IN  Gate(p, "delete", in, byId_start(Admitted("delete", in)))

deleteDeck_findFirst(p, I) ==
    /\ req[p].pc = "findFirst"
    /\ req[p].kind = "delete"
    /\ \E out \in I.outcomes :
        LET r == Looked(req[p], out)
            existingDeck == DeckRepository_getDeckByIdAndUser(r.loc.deckId, r.user.userId)
        IN  req' = [req EXCEPT ![p] =
                IF out # "ok" THEN Caught(r, out, getDeckById_catch(out))
                ELSE IF existingDeck.t = "null"
                THEN Done(r, getDeckById_catch("Deck not found"))
                ELSE [r EXCEPT !.pc = "delete.deleteMany"]]
    /\ UNCHANGED <<users, decks, deckCards, nextDeckId, schema, now, ticks, server>>

\* DeckRepository.deleteDeck, first store call: the association rows go.
deleteDeck_deleteMany(p, I) ==
    /\ req[p].pc = "delete.deleteMany"
    /\ \E out \in I.outcomes :
        LET r == Called(req[p], 1)
        IN  /\ SetDb(IF out # "ok" THEN Unchanged ELSE deckCard_deleteMany(r.loc.deckId))
            /\ req' = [req EXCEPT ![p] =
                    IF out # "ok" THEN Caught(r, out, getDeckById_catch(out))
                    ELSE [r EXCEPT !.pc = "delete.delete"]]
    /\ UNCHANGED <<users, schema, now, ticks, server>>

\* DeckRepository.deleteDeck, second store call: the deck row goes.
deleteDeck_delete(p, I) ==
    /\ req[p].pc = "delete.delete"
    /\ \E out \in I.outcomes, msg \in RecordNotFound :
        LET r == Called(req[p], 1)
            res == IF out # "ok" THEN Thrown(out)
                   ELSE deck_delete(r.loc.deckId, r.user.userId, msg)
        IN  /\ SetDb(res.db)
            /\ req' = [req EXCEPT ![p] =
                    IF res.err # "" THEN Caught(r, res.err, getDeckById_catch(res.err))
                    ELSE Done(r, Json(200, [message |-> "Deck deleted successfully"]))]
    /\ UNCHANGED <<users, schema, now, ticks, server>>

\* ---- POST /api/auth/sign-up
POST_sign_up(p, I) ==
    /\ CanArrive(p)
    /\ \E email \in I.emails, username \in I.usernames, password \in I.passwords :
        LET r == Arrived("sign-up",
                         [email |-> email, username |-> username, password |-> password])
        IN  req' = [req EXCEPT ![p] =
                IF email = "" \/ username = "" \/ password = ""
                THEN Done(r, Json(400, ErrorBody("Email, username, and password are required")))
                ELSE [r EXCEPT !.pc = "sign-up.findUnique"]]
    /\ UNCHANGED <<users, decks, deckCards, nextDeckId, schema, now, ticks, server>>

sign_up_findUnique(p, I) ==
    /\ req[p].pc = "sign-up.findUnique"
    /\ \E out \in I.outcomes :
        LET r == Called(req[p], 0)
            existingUser == user_findUnique(r.in.email)
        IN  req' = [req EXCEPT ![p] =
                IF out # "ok" THEN Caught(r, out, InternalError)
                ELSE IF existingUser # Null
                THEN Done(r, Json(409, ErrorBody("Email already in use")))
                ELSE [r EXCEPT !.pc = "sign-up.create"]]
    /\ UNCHANGED <<users, decks, deckCards, nextDeckId, schema, now, ticks, server>>

\* prisma.user.create({ data: { email, username, password } }): email is unique.
user_create(email, username, hashedPassword) ==
    IF user_findUnique(email) # Null THEN [err |-> UniqueEmail, users |-> users, ret |-> Null]
    ELSE LET row == [id |-> Len(users) + 1, email |-> email, username |-> username,
                     password |-> hashedPassword, createdAt |-> now]
         IN  [err |-> "", users |-> Append(users, row), ret |-> PublicUser(row)]

sign_up_create(p, I) ==
    /\ req[p].pc = "sign-up.create"
    /\ \E out \in I.outcomes, salt \in I.salts :
        LET r == Called(req[p], 1)
            res == IF out # "ok" THEN [err |-> out, users |-> users, ret |-> Null]
                   ELSE user_create(r.in.email, r.in.username,
                                    bcrypt_hash(r.in.password, salt))
        IN  /\ users' = res.users
            /\ req' = [req EXCEPT ![p] =
                    IF res.err # "" THEN Caught(r, res.err, InternalError)
                    ELSE Done(r, Json(201,
                            [token |-> jwt_sign(res.ret.id, res.ret.email, JWT_SECRET, now),
                             user |-> res.ret]))]
    /\ UNCHANGED <<decks, deckCards, nextDeckId, schema, now, ticks, server>>

\* ---- POST /api/auth/sign-in
POST_sign_in(p, I) ==
    /\ CanArrive(p)
    /\ \E email \in I.emails, password \in I.passwords :
        LET r == Arrived("sign-in", [email |-> email, password |-> password])
        IN  req' = [req EXCEPT ![p] =
                IF email = "" \/ password = ""
                THEN Done(r, Json(400, ErrorBody("Email and password are required")))
                ELSE [r EXCEPT !.pc = "sign-in.findUnique"]]
    /\ UNCHANGED <<users, decks, deckCards, nextDeckId, schema, now, ticks, server>>

\* Mutant of sign_in_afterLookup: an unknown email gets a message of its own.
sign_in_afterLookup_tellsUnknown(r, user) ==
    IF user = Null THEN Done(r, Json(401, ErrorBody("Unknown email")))
    ELSE IF ~bcrypt_compare(r.in.password, user.password)
    THEN Done(r, Json(401, ErrorBody("Invalid email or password")))
    ELSE Done(r, Json(200, [token |-> jwt_sign(user.id, user.email, JWT_SECRET, now),
                            user |-> PublicUser(user)]))

\* The sign-in handler from its user lookup on.
sign_in_afterLookup(r, user) ==
    IF user = Null THEN Done(r, Json(401, ErrorBody("Invalid email or password")))
    ELSE IF ~bcrypt_compare(r.in.password, user.password)
    THEN Done(r, Json(401, ErrorBody("Invalid email or password")))
    ELSE Done(r, Json(200, [token |-> jwt_sign(user.id, user.email, JWT_SECRET, now),
                            user |-> PublicUser(user)]))

sign_in_findUnique(p, I) ==
    /\ req[p].pc = "sign-in.findUnique"
    /\ \E out \in I.outcomes :
        LET r == [Called(req[p], 0) EXCEPT
                     !.seen = IF out # "ok" THEN "error"
                              ELSE IF user_findUnique(req[p].in.email) = Null
                              THEN "absent" ELSE "own"]
        IN  req' = [req EXCEPT ![p] =
                IF out # "ok" THEN Caught(r, out, InternalError)
                ELSE sign_in_afterLookup(r, user_findUnique(r.in.email))]
    /\ UNCHANGED <<users, decks, deckCards, nextDeckId, schema, now, ticks, server>>

\* ---- time passes
Tick(I) ==
    /\ ticks < MaxTicks
    /\ \E d \in I.days : now' = now + d
    /\ ticks' = ticks + 1
    /\ UNCHANGED <<users, decks, deckCards, nextDeckId, schema, req, server>>

\* ------------------------------------------------------------ index.ts
\* process.env.PORT || 3000, as the port number listen() makes of it.
PortOf(PORT) == IF Falsy(PORT) THEN DefaultPort ELSE parseInt(PORT.v)

\* The ports the system hands out when asked for port 0.
Ephemeral == {49152, 49153}

PortsOf(bound) == {bound[i].port : i \in 1..Len(bound)}

\* server.listen(port) by the http server named name: the port is bound at once,
\* or an 'error' event (EADDRINUSE) is queued for the next tick.
listen(s, name, port) ==
    IF port = 0
    THEN {[s EXCEPT !.bound = Append(@, [server |-> name, port |-> e])] :
             e \in Ephemeral \ (s.taken \cup PortsOf(s.bound))}
    ELSE IF port \in s.taken \cup PortsOf(s.bound)
    THEN {[s EXCEPT !.errors = Append(@, [server |-> name, code |-> "EADDRINUSE"])]}
    ELSE {[s EXCEPT !.bound = Append(@, [server |-> name, port |-> port])]}

\* index.ts line 17: app.listen(PORT), whoever loads the module; then the
\* middlewares and routers are mounted.
index_app_listen ==
    /\ server.pc = "load"
    /\ \E s \in listen(server, "app", PortOf(server.PORT)) :
          server' = [s EXCEPT !.pc = "mounted"]
    /\ UNCHANGED <<users, decks, deckCards, nextDeckId, schema, now, ticks, req>>

\* index.ts lines 58-73: require.main === module, so httpServer.listen(PORT).
index_httpServer_listen ==
    /\ server.pc = "mounted"
    /\ server.main
    /\ \E s \in listen(server, "httpServer", PortOf(server.PORT)) :
          server' = [s EXCEPT !.pc = "loaded"]
    /\ UNCHANGED <<users, decks, deckCards, nextDeckId, schema, now, ticks, req>>

\* index.ts line 58: the module was imported, the guarded block is skipped.
index_imported ==
    /\ server.pc = "mounted"
    /\ ~server.main
    /\ server' = [server EXCEPT !.pc = "loaded"]
    /\ UNCHANGED <<users, decks, deckCards, nextDeckId, schema, now, ticks, req>>

\* Next tick, an 'error' event with no listener: the exception is uncaught, the
\* process exits and its ports are released.
emit_error ==
    /\ server.pc = "loaded"
    /\ server.errors # <<>>
    /\ server' = [server EXCEPT !.pc = "crashed", !.bound = <<>>]
    /\ UNCHANGED <<users, decks, deckCards, nextDeckId, schema, now, ticks, req>>

\* Next tick, no event pending: the servers bound accept connections.
emit_listening ==
    /\ server.pc = "loaded"
    /\ server.errors = <<>>
    /\ server' = [server EXCEPT !.pc = "serving"]
    /\ UNCHANGED <<users, decks, deckCards, nextDeckId, schema, now, ticks, req>>

\* index.ts imported with PORT not set and port 3000 free, the app accepting
\* connections.
Serving ==
    [pc |-> "serving", main |-> FALSE, PORT |-> Undefined, taken |-> {},
     bound |-> <<[server |-> "app", port |-> DefaultPort]>>, errors |-> <<>>]

\* ------------------------------------------------------------ inputs
Run(a, n) == [i \in 1..n |-> a + i - 1]

ListA == Run(1, DeckSize)

ListB == Run(DeckSize + 1, DeckSize)

\* Overlaps ListA and ListB.
ListC == Run(6, DeckSize)

\* ListA in another order.
ListRev == [i \in 1..DeckSize |-> DeckSize + 1 - i]

\* Ten ids, one of them twice.
ListDup == <<1>> \o Run(1, DeckSize - 1)

ListShort == Run(1, DeckSize - 1)

ListLong == Run(1, DeckSize + 1)

\* Ten distinct ids, the last one of no card.
ListUnknown == Run(NumCards - DeckSize + 2, DeckSize)

StarterDeck == <<"S", "t", "a", "r", "t", "e", "r", " ", "D", "e", "c", "k">>

\* The users of the seed; both passwords are one hash of "password123".
SeedUsers ==
    LET hashedPassword == bcrypt_hash("password123", "salt0")
    IN  <<[id |-> 1, email |-> "red@example.com", username |-> "red",
           password |-> hashedPassword, createdAt |-> 0],
          [id |-> 2, email |-> "blue@example.com", username |-> "blue",
           password |-> hashedPassword, createdAt |-> 0]>>

\* Concurrent requests on the decks of the seed: valid tokens, valid and partial bodies.
DeckInputs ==
    [subjects |-> {1, 2}, keys |-> {JWT_SECRET}, iats |-> {0}, headers |-> {},
     ids |-> {<<"1">>, <<"3">>},
     names |-> {Undefined, Str(<<"n">>)},
     cardsCreate |-> {Arr(ListB)},
     cardsUpdate |-> {Undefined, Arr(ListB), Arr(ListC)},
     outcomes |-> {"ok", Unreachable},
     emails |-> {}, usernames |-> {}, passwords |-> {}, salts |-> {}, days |-> {}]

\* ------------------------------------------------------------ the system
\* The state after the seed: two users, each with a starter deck of ten cards.
InitOf(n) ==
    /\ users = SeedUsers
    /\ decks = {[id |-> 1, name |-> StarterDeck, userId |-> 1],
                [id |-> 2, name |-> StarterDeck, userId |-> 2]}
    /\ \E red \in {ListA}, blue \in {ListC} : deckCards = <<red, blue>>
    /\ nextDeckId = 3
    /\ schema \in SchemaOptions
    /\ now = 0
    /\ ticks = 0
    /\ req = [p \in 1..n |-> Idle]
    /\ server = Serving

Init == InitOf(MaxReqs)

Next ==
    \E p \in 1..MaxReqs :
        \/ POST_decks(p, DeckInputs)
        \/ createDeck_validateCardIds(p, DeckInputs)
        \/ createDeck_create(p, DeckInputs)
        \/ GET_mine(p, DeckInputs)
        \/ getUserDecks_findMany(p, DeckInputs)
        \/ GET_deck(p, DeckInputs)
        \/ getDeckById_findFirst(p, DeckInputs)
        \/ PATCH_deck(p, DeckInputs)
        \/ updateDeck_findFirst(p, DeckInputs)
        \/ updateDeck_validateCardIds(p, DeckInputs)
        \/ updateDeck_deleteMany(p, DeckInputs)
        \/ updateDeck_update(p, DeckInputs)
        \/ DELETE_deck(p, DeckInputs)
        \/ deleteDeck_findFirst(p, DeckInputs)
        \/ deleteDeck_deleteMany(p, DeckInputs)
        \/ deleteDeck_delete(p, DeckInputs)

Spec == Init /\ [][Next]_vars

\* Requests with every kind of authorization header, while time passes.
GateInputs ==
    [subjects |-> {1}, keys |-> {JWT_SECRET, "another secret"}, iats |-> {0},
     headers |-> {NoHeader, Header(<<"Bearer">>)},
     ids |-> {<<"1">>},
     names |-> {Str(<<"n">>)},
     cardsCreate |-> {Arr(ListB)},
     cardsUpdate |-> {Arr(ListB)},
     outcomes |-> {"ok"},
     emails |-> {}, usernames |-> {}, passwords |-> {}, salts |-> {},
     days |-> {1, TokenDays - 1}]

GateInit == InitOf(GateReqs)

GateNext ==
    \/ Tick(GateInputs)
    \/ \E p \in 1..GateReqs :
        \/ POST_decks(p, GateInputs)
        \/ createDeck_validateCardIds(p, GateInputs)
        \/ createDeck_create(p, GateInputs)
        \/ GET_mine(p, GateInputs)
        \/ getUserDecks_findMany(p, GateInputs)
        \/ GET_deck(p, GateInputs)
        \/ getDeckById_findFirst(p, GateInputs)
        \/ PATCH_deck(p, GateInputs)
        \/ updateDeck_findFirst(p, GateInputs)
        \/ updateDeck_validateCardIds(p, GateInputs)
        \/ updateDeck_deleteMany(p, GateInputs)
        \/ updateDeck_update(p, GateInputs)
        \/ DELETE_deck(p, GateInputs)
        \/ deleteDeck_findFirst(p, GateInputs)
        \/ deleteDeck_deleteMany(p, GateInputs)
        \/ deleteDeck_delete(p, GateInputs)

SpecGate == GateInit /\ [][GateNext]_vars

\* Sign-up and sign-in with known and unknown emails, right and wrong passwords.
AuthInputs ==
    [subjects |-> {}, keys |-> {}, iats |-> {}, headers |-> {}, ids |-> {},
     names |-> {}, cardsCreate |-> {}, cardsUpdate |-> {},
     outcomes |-> {"ok"},
     emails |-> {"red@example.com", "new@example.com"},
     usernames |-> {"ash", ""},
     passwords |-> {"password123", "wrong", ""},
     salts |-> {"salt1"},
     days |-> {}]

PairInit == InitOf(PairReqs)

AuthNext ==
    \E p \in 1..PairReqs :
        \/ POST_sign_up(p, AuthInputs)
        \/ sign_up_findUnique(p, AuthInputs)
        \/ sign_up_create(p, AuthInputs)
        \/ POST_sign_in(p, AuthInputs)
        \/ sign_in_findUnique(p, AuthInputs)

SpecAuth == PairInit /\ [][AuthNext]_vars

\* Red's requests on red's deck, on blue's deck and on a deck that does not exist.
OwnerInputs ==
    [subjects |-> {1}, keys |-> {JWT_SECRET}, iats |-> {0}, headers |-> {},
     ids |-> {<<"1">>, <<"2">>, <<"3">>},
     names |-> {Undefined},
     cardsCreate |-> {},
     cardsUpdate |-> {Arr(ListB)},
     outcomes |-> {"ok", Unreachable},
     emails |-> {}, usernames |-> {}, passwords |-> {}, salts |-> {}, days |-> {}]

OwnerNext ==
    \E p \in 1..PairReqs :
        \/ GET_deck(p, OwnerInputs)
        \/ getDeckById_findFirst(p, OwnerInputs)
        \/ PATCH_deck(p, OwnerInputs)
        \/ updateDeck_findFirst(p, OwnerInputs)
        \/ updateDeck_validateCardIds(p, OwnerInputs)
        \/ updateDeck_deleteMany(p, OwnerInputs)
        \/ updateDeck_update(p, OwnerInputs)
        \/ DELETE_deck(p, OwnerInputs)
        \/ deleteDeck_findFirst(p, OwnerInputs)
        \/ deleteDeck_deleteMany(p, OwnerInputs)
        \/ deleteDeck_delete(p, OwnerInputs)

SpecOwner == PairInit /\ [][OwnerNext]_vars

\* The values of req.body.cards: absent, a string of ten characters, lists of
\* ten and of other lengths.
BodyCards ==
    {Undefined, Str(Digits), Arr(<<>>), Arr(ListRev), Arr(ListDup), Arr(ListShort),
     Arr(ListLong), Arr(ListUnknown)}

\* One request with a well-formed or a malformed body.
BodyInputs ==
    [subjects |-> {1}, keys |-> {JWT_SECRET}, iats |-> {0}, headers |-> {},
     ids |-> {<<"1">>, <<"2">>, <<"3">>, <<"x">>},
     names |-> {Undefined, Str(<<>>), Str(<<" ">>), Str(<<" ", "n", " ">>)},
     cardsCreate |-> BodyCards,
     cardsUpdate |-> BodyCards,
     outcomes |-> {"ok"},
     emails |-> {}, usernames |-> {}, passwords |-> {}, salts |-> {}, days |-> {}]

BodyInit == InitOf(BodyReqs)

BodyNext ==
    \E p \in 1..BodyReqs :
        \/ POST_decks(p, BodyInputs)
        \/ createDeck_validateCardIds(p, BodyInputs)
        \/ createDeck_create(p, BodyInputs)
        \/ GET_mine(p, BodyInputs)
        \/ getUserDecks_findMany(p, BodyInputs)
        \/ GET_deck(p, BodyInputs)
        \/ getDeckById_findFirst(p, BodyInputs)
        \/ PATCH_deck(p, BodyInputs)
        \/ updateDeck_findFirst(p, BodyInputs)
        \/ updateDeck_validateCardIds(p, BodyInputs)
        \/ updateDeck_deleteMany(p, BodyInputs)
        \/ updateDeck_update(p, BodyInputs)
        \/ DELETE_deck(p, BodyInputs)
        \/ deleteDeck_findFirst(p, BodyInputs)
        \/ deleteDeck_deleteMany(p, BodyInputs)
        \/ deleteDeck_delete(p, BodyInputs)

SpecBody == BodyInit /\ [][BodyNext]_vars

\* Red's reads, updates and deletes of red's deck, the store answering or not.
GoneInputs ==
    [subjects |-> {1}, keys |-> {JWT_SECRET}, iats |-> {0}, headers |-> {},
     ids |-> {<<"1">>},
     names |-> {Undefined},
     cardsCreate |-> {},
     cardsUpdate |-> {Arr(ListB)},
     outcomes |-> {"ok", Unreachable},
     emails |-> {}, usernames |-> {}, passwords |-> {}, salts |-> {}, days |-> {}]

GoneNext ==
    \E p \in 1..PairReqs :
        \/ GET_mine(p, GoneInputs)
        \/ getUserDecks_findMany(p, GoneInputs)
        \/ GET_deck(p, GoneInputs)
        \/ getDeckById_findFirst(p, GoneInputs)
        \/ PATCH_deck(p, GoneInputs)
        \/ updateDeck_findFirst(p, GoneInputs)
        \/ updateDeck_validateCardIds(p, GoneInputs)
        \/ updateDeck_deleteMany(p, GoneInputs)
        \/ updateDeck_update(p, GoneInputs)
        \/ DELETE_deck(p, GoneInputs)
        \/ deleteDeck_findFirst(p, GoneInputs)
        \/ deleteDeck_deleteMany(p, GoneInputs)
        \/ deleteDeck_delete(p, GoneInputs)

SpecGone == PairInit /\ [][GoneNext]_vars

\* Red's and blue's creates, updates and deletes, each of red's deck and of
\* blue's deck.
CrossInputs ==
    [subjects |-> {1, 2}, keys |-> {JWT_SECRET}, iats |-> {0}, headers |-> {},
     ids |-> {<<"1">>, <<"2">>},
     names |-> {Str(<<"n">>)},
     cardsCreate |-> {Arr(ListB)},
     cardsUpdate |-> {Arr(ListB)},
     outcomes |-> {"ok"},
     emails |-> {}, usernames |-> {}, passwords |-> {}, salts |-> {}, days |-> {}]

CrossNext ==
    \E p \in 1..PairReqs :
        \/ POST_decks(p, CrossInputs)
        \/ createDeck_validateCardIds(p, CrossInputs)
        \/ createDeck_create(p, CrossInputs)
        \/ PATCH_deck(p, CrossInputs)
        \/ updateDeck_findFirst(p, CrossInputs)
        \/ updateDeck_validateCardIds(p, CrossInputs)
        \/ updateDeck_deleteMany(p, CrossInputs)
        \/ updateDeck_update(p, CrossInputs)
        \/ DELETE_deck(p, CrossInputs)
        \/ deleteDeck_findFirst(p, CrossInputs)
        \/ deleteDeck_deleteMany(p, CrossInputs)
        \/ deleteDeck_delete(p, CrossInputs)

SpecCross == PairInit /\ [][CrossNext]_vars

\* One request of any kind, well formed, each of its store calls answering or
\* throwing.
FaultInputs ==
    [subjects |-> {1}, keys |-> {JWT_SECRET}, iats |-> {0}, headers |-> {},
     ids |-> {<<"1">>},
     names |-> {Undefined, Str(<<"n">>)},
     cardsCreate |-> {Arr(ListB)},
     cardsUpdate |-> {Undefined, Arr(ListB)},
     outcomes |-> {"ok", Unreachable, InvalidDatabaseString},
     emails |-> {"red@example.com", "new@example.com"},
     usernames |-> {"ash"},
     passwords |-> {"password123"},
     salts |-> {"salt1"},
     days |-> {}]

FaultNext ==
    \E p \in 1..BodyReqs :
        \/ POST_decks(p, FaultInputs)
        \/ createDeck_validateCardIds(p, FaultInputs)
        \/ createDeck_create(p, FaultInputs)
        \/ GET_mine(p, FaultInputs)
        \/ getUserDecks_findMany(p, FaultInputs)
        \/ GET_deck(p, FaultInputs)
        \/ getDeckById_findFirst(p, FaultInputs)
        \/ PATCH_deck(p, FaultInputs)
        \/ updateDeck_findFirst(p, FaultInputs)
        \/ updateDeck_validateCardIds(p, FaultInputs)
        \/ updateDeck_deleteMany(p, FaultInputs)
        \/ updateDeck_update(p, FaultInputs)
        \/ DELETE_deck(p, FaultInputs)
        \/ deleteDeck_findFirst(p, FaultInputs)
        \/ deleteDeck_deleteMany(p, FaultInputs)
        \/ deleteDeck_delete(p, FaultInputs)
        \/ POST_sign_up(p, FaultInputs)
        \/ sign_up_findUnique(p, FaultInputs)
        \/ sign_up_create(p, FaultInputs)
        \/ POST_sign_in(p, FaultInputs)
        \/ sign_in_findUnique(p, FaultInputs)

SpecFault == BodyInit /\ [][FaultNext]_vars

\* index.ts about to be loaded: run directly or imported, with PORT unset, empty,
\* "0" or "8080", and with some of the ports held by other processes.
BootInit ==
    /\ users = SeedUsers
    /\ decks = {[id |-> 1, name |-> StarterDeck, userId |-> 1],
                [id |-> 2, name |-> StarterDeck, userId |-> 2]}
    /\ deckCards = <<ListA, ListC>>
    /\ nextDeckId = 3
    /\ schema = [pairUnique |-> TRUE, onDeleteCascade |-> TRUE]
    /\ now = 0
    /\ ticks = 0
    /\ req = <<>>
    /\ \E main \in BOOLEAN,
          PORT \in {Undefined, Str(<<>>), Str(<<"0">>), Str(<<"8", "0", "8", "0">>)},
          taken \in SUBSET {DefaultPort, 8080, 49152} :
            server = [pc |-> "load", main |-> main, PORT |-> PORT, taken |-> taken,
                      bound |-> <<>>, errors |-> <<>>]

BootNext ==
    \/ index_app_listen
    \/ index_httpServer_listen
    \/ index_imported
    \/ emit_error
    \/ emit_listening

SpecBoot == BootInit /\ [][BootNext]_vars

\* No request other than p is being handled.
Alone(p) == \A q \in Procs : q # p => req[q].pc \in {"idle", "done"}

\* Red's requests, each sent after the answer to the one before: decks created with
\* several lists, read back, renamed, given other cards, deleted.
SeqInputs ==
    [subjects |-> {1}, keys |-> {JWT_SECRET}, iats |-> {0}, headers |-> {},
     ids |-> {<<"1">>, <<"3">>},
     names |-> {Undefined, Str(<<" ", "n", " ">>)},
     cardsCreate |-> {Arr(ListB), Arr(ListC), Arr(ListRev)},
     cardsUpdate |-> {Undefined, Arr(ListB)},
     outcomes |-> {"ok"},
     emails |-> {}, usernames |-> {}, passwords |-> {}, salts |-> {}, days |-> {}]

SeqInit == InitOf(SeqReqs)

SeqNext ==
    \E p \in 1..SeqReqs :
        \/ Alone(p) /\ POST_decks(p, SeqInputs)
        \/ createDeck_validateCardIds(p, SeqInputs)
        \/ createDeck_create(p, SeqInputs)
        \/ Alone(p) /\ GET_mine(p, SeqInputs)
        \/ getUserDecks_findMany(p, SeqInputs)
        \/ Alone(p) /\ GET_deck(p, SeqInputs)
        \/ getDeckById_findFirst(p, SeqInputs)
        \/ Alone(p) /\ PATCH_deck(p, SeqInputs)
        \/ updateDeck_findFirst(p, SeqInputs)
        \/ updateDeck_validateCardIds(p, SeqInputs)
        \/ updateDeck_deleteMany(p, SeqInputs)
        \/ updateDeck_update(p, SeqInputs)
        \/ Alone(p) /\ DELETE_deck(p, SeqInputs)
        \/ deleteDeck_findFirst(p, SeqInputs)
        \/ deleteDeck_deleteMany(p, SeqInputs)
        \/ deleteDeck_delete(p, SeqInputs)

SpecSeq == SeqInit /\ [][SeqNext]_vars

\* ------------------------------------------------------------ properties
DeckKinds == {"create", "list", "get", "update", "delete"}

Finished(p) == req[p].pc = "done"

\* The decks a read request was answered with.
DecksRead(p) ==
    IF ~Finished(p) \/ req[p].resp.status # 200 THEN {}
    ELSE IF req[p].kind = "get" THEN {req[p].resp.body}
    ELSE IF req[p].kind = "list" THEN Range(req[p].resp.body)
    ELSE {}

TenDistinct(cards) == Len(cards) = DeckSize /\ Cardinality(Range(cards)) = DeckSize

DeckExists(deckId) == \E d \in decks : d.id = deckId

\* C1: every deck a read operation (get by id, list mine) returns has exactly ten
\* distinct cards, whatever update or delete is in progress.
C1_ReadsSeeTenCards ==
    \A p \in Procs : \A deck \in DecksRead(p) : TenDistinct(deck.deckCards)

\* C2: a replace that fails after it has started leaves the deck with ten
\* association rows: in the step in which an update request that has issued a
\* write is answered with an error, its deck, if still there, has ten cards.
C2_FailedReplaceKeepsTen ==
    [][\A p \in Procs :
          (/\ req[p].kind = "update"
           /\ ~Finished(p)
           /\ req'[p].pc = "done"
           /\ req'[p].resp.status # 200
           /\ req'[p].writes > 0
           /\ \E d \in decks' : d.id = req[p].loc.deckId)
          => TenDistinct(deckCards'[req[p].loc.deckId])]_vars

\* C3: a delete is one atomic unit: in the step in which a delete request that
\* has issued a write is answered, either the deck row and its association rows
\* are gone or the deck row is there with ten association rows.
C3_DeleteIsAtomic ==
    [][\A p \in Procs :
          (/\ req[p].kind = "delete"
           /\ ~Finished(p)
           /\ req'[p].pc = "done"
           /\ req'[p].writes > 0)
          => IF \E d \in decks' : d.id = req[p].loc.deckId
             THEN TenDistinct(deckCards'[req[p].loc.deckId])
             ELSE deckCards'[req[p].loc.deckId] = <<>>]_vars

\* An update of deck 1 that supplied a card list and was answered 200.
ReplacedOk(p) ==
    /\ Finished(p)
    /\ req[p].kind = "update"
    /\ req[p].resp.status = 200
    /\ req[p].in.cards.t = "array"

\* C4: two updates of one deck with different card lists: each is answered with a
\* ten-card deck, and once both have finished the deck holds the list of one of them.
C4_LastWriterWins ==
    \A p, q \in Procs :
        (/\ p # q
         /\ ReplacedOk(p)
         /\ ReplacedOk(q)
         /\ req[p].loc.deckId = req[q].loc.deckId
         /\ req[p].in.cards # req[q].in.cards
         /\ \A o \in Procs : req[o].pc \in {"idle", "done"})
        => /\ TenDistinct(req[p].resp.body.deckCards)
           /\ DeckExists(req[p].loc.deckId)
              => rowsOf(req[p].loc.deckId) \in {req[p].in.cards.v, req[q].in.cards.v}

\* C5: an update re-resolves the deck before it mutates: it issues no write
\* against the store once the deck it looked up is gone.
C5_NoWriteOnceDeckGone ==
    [][\A p \in Procs :
          (/\ req[p].kind = "update"
           /\ req[p].pc \in {"update.deleteMany", "update.update"}
           /\ ~DeckExists(req[p].loc.deckId))
          => req'[p].writes = req[p].writes]_vars

\* The token of a request's authorization header was signed by the server less
\* than seven days before the request arrived.
Acceptable(r) ==
    /\ r.in.authorization.t = "string"
    /\ Len(r.in.authorization.words) >= 2
    /\ r.in.authorization.words[2].key = JWT_SECRET
    /\ r.at - r.in.authorization.words[2].iat < TokenDays

\* C6: token verification is a precondition for every deck operation: a request
\* whose token is absent, signed with another secret or seven days old is answered
\* 401 with no handler run and no store call made; otherwise the handler acts with
\* the identity (userId, email) of the token.
C6_GateBeforeHandler ==
    \A p \in Procs :
        req[p].kind \in DeckKinds =>
            IF Acceptable(req[p])
            THEN /\ req[p].user.t = "user"
                 /\ req[p].user.userId = req[p].in.authorization.words[2].userId
                 /\ req[p].user.email = req[p].in.authorization.words[2].email
                 /\ Finished(p) => req[p].resp.status # 401
            ELSE /\ Finished(p)
                 /\ req[p].resp.status = 401
                 /\ req[p].user = Null
                 /\ req[p].calls = 0

\* A request with an expired token has been refused and one with a fresh token has
\* reached the store.
C6_Witness ==
    \E p \in Procs :
        /\ req[p].kind \in DeckKinds
        /\ Finished(p)
        /\ req[p].in.authorization.t = "string"
        /\ Len(req[p].in.authorization.words) >= 2
        /\ req[p].in.authorization.words[2].key = JWT_SECRET
        /\ req[p].at >= req[p].in.authorization.words[2].exp
        /\ req[p].resp.status = 401

\* Two finished requests of one kind with one body, the first for a deck of
\* another user and the second for a deck that does not exist.
ForeignAndAbsent(p, q) ==
    /\ Finished(p)
    /\ Finished(q)
    /\ req[p].kind \in {"get", "update", "delete"}
    /\ req[p].kind = req[q].kind
    /\ [req[p].in EXCEPT !.id = <<>>] = [req[q].in EXCEPT !.id = <<>>]
    /\ req[p].seen = "foreign"
    /\ req[q].seen = "absent"

\* C7: get, update and delete of a deck of another user are answered like those of
\* a deck that does not exist: the same status 404 and the same body.
C7_ForeignLikeAbsent ==
    \A p, q \in Procs :
        ForeignAndAbsent(p, q) =>
            /\ req[p].resp = req[q].resp
            /\ req[p].resp.status = 404

C7_Witness == \E p, q \in Procs : ForeignAndAbsent(p, q) /\ req[p].kind = "update"

\* Two finished sign-ins, the first with a registered email and a wrong password,
\* the second with an email that is not registered.
WrongPasswordAndUnknownEmail(p, q) ==
    /\ Finished(p)
    /\ Finished(q)
    /\ req[p].kind = "sign-in"
    /\ req[q].kind = "sign-in"
    /\ req[p].seen = "own"
    /\ req[p].in.password # ""
    /\ user_findUnique(req[p].in.email).password.digest[2] # req[p].in.password
    /\ req[q].seen = "absent"
    /\ req[q].in.password # ""

\* C8: sign-in with a wrong password and sign-in with an unknown email are
\* answered alike: status 401 and the same body.
C8_SignInFailuresAlike ==
    \A p, q \in Procs :
        WrongPasswordAndUnknownEmail(p, q) =>
            /\ req[p].resp = req[q].resp
            /\ req[p].resp.status = 401

C8_Witness == \E p, q \in Procs : WrongPasswordAndUnknownEmail(p, q)

\* C9: a sign-up with all its fields that creates no account is answered 409,
\* also when another sign-up for the same email is handled at the same time.
C9_DuplicateEmailIsConflict ==
    \A p \in Procs :
        (/\ Finished(p)
         /\ req[p].kind = "sign-up"
         /\ req[p].in.email # ""
         /\ req[p].in.username # ""
         /\ req[p].in.password # ""
         /\ req[p].resp.status # 201)
        => req[p].resp.status = 409

\* A deck request whose card list holds ten ids, one of them twice, and that is
\* otherwise valid: a name to store, and for an update the caller's own deck.
RepeatedCard(p) ==
    /\ Finished(p)
    /\ req[p].in.cards = Arr(ListDup)
    /\ \/ /\ req[p].kind = "create"
          /\ req[p].in.name = Str(<<" ", "n", " ">>)
       \/ /\ req[p].kind = "update"
          /\ req[p].seen = "own"
          /\ req[p].in.name \in {Undefined, Str(<<" ", "n", " ">>)}

\* C10: a create or update whose card list repeats an id fails with 400 and
\* persists nothing.
C10_RepeatedCardIs400 ==
    \A p \in Procs :
        (req[p].kind \in {"create", "update"} /\ RepeatedCard(p)) =>
            /\ req[p].resp.status = 400
            /\ req[p].writes = 0

\* A name that passes the name check: a string with a character that is no space.
ValidName(name) == name.t = "string" /\ trim(name.v) # <<>>

\* A card list that is no array of ten elements.
NotTen(cards) == cards.t # "array" \/ Len(cards.v) # DeckSize

\* A finished create or update whose card list is no array of ten elements and
\* that is otherwise valid: a name to store, and for an update the caller's own
\* deck and a card list that is provided.
WrongCount(p) ==
    /\ Finished(p)
    /\ NotTen(req[p].in.cards)
    /\ \/ /\ req[p].kind = "create"
          /\ ValidName(req[p].in.name)
       \/ /\ req[p].kind = "update"
          /\ req[p].seen = "own"
          /\ req[p].in.cards.t # "undefined"
          /\ req[p].in.name.t = "undefined" \/ ValidName(req[p].in.name)

\* C11: a create, or an update that supplies a card list, whose list is absent,
\* no array, or of a length other than ten (0, 9, 11) is answered 400 with
\* 'Exactly 10 cards are required', and writes nothing.
C11_WrongCountIs400 ==
    \A p \in Procs :
        (req[p].kind \in {"create", "update"} /\ WrongCount(p)) =>
            /\ req[p].resp = Json(400, ErrorBody("Exactly 10 cards are required"))
            /\ req[p].writes = 0

\* A create with eleven cards and a valid name has been answered.
C11_Witness ==
    \E p \in Procs :
        /\ req[p].kind = "create"
        /\ WrongCount(p)
        /\ req[p].in.cards = Arr(ListLong)


\* The exceptions of a store that cannot be used at all.
Outages == {Unreachable, InvalidDatabaseString}

\* A finished create or update whose card list holds ten distinct ids, one at
\* least of no card, that is otherwise valid and met no outage of the store.
UnknownCard(p) ==
    /\ Finished(p)
    /\ req[p].threw \notin Outages
    /\ req[p].in.cards.t = "array"
    /\ TenDistinct(req[p].in.cards.v)
    /\ Range(req[p].in.cards.v) \ CardIds # {}
    /\ \/ /\ req[p].kind = "create"
          /\ ValidName(req[p].in.name)
       \/ /\ req[p].kind = "update"
          /\ req[p].seen = "own"
          /\ req[p].in.name.t = "undefined" \/ ValidName(req[p].in.name)

\* C12: a create or update with ten distinct ids, one at least of no card, is
\* answered 400 with 'Some card IDs are invalid' and rejected as a whole: it
\* writes nothing, and no deck holds the ids of the list that are ids of cards.
C12_UnknownCardRejectsAll ==
    \A p \in Procs :
        (req[p].kind \in {"create", "update"} /\ UnknownCard(p)) =>
            /\ req[p].resp = Json(400, ErrorBody("Some card IDs are invalid"))
            /\ req[p].writes = 0
            /\ \A d \in DOMAIN deckCards :
                  \/ deckCards[d] = <<>>
                  \/ ~(Range(deckCards[d]) \subseteq Range(req[p].in.cards.v))

\* An update of the caller's own deck with an id of no card has been answered.
C12_Witness ==
    \E p \in Procs :
        /\ req[p].kind = "update"
        /\ UnknownCard(p)
        /\ req[p].calls = 2


\* A sequence of characters that is not empty and neither starts nor ends with a space.
Trimmed(chars) == chars # <<>> /\ Head(chars) # " " /\ chars[Len(chars)] # " "

\* A string of no character other than spaces.
Blank(name) == name.t = "string" /\ \A i \in 1..Len(name.v) : name.v[i] = " "

\* C13: every stored deck name is non-empty with no space at either end: a create
\* whose name is absent, empty or of spaces only is answered 400, so is an update
\* of the caller's deck that provides such a name, and a create or update that is
\* answered with a deck stored the name it was given without the spaces around it.
C13_StoredNamesTrimmed ==
    /\ \A d \in decks : Trimmed(d.name)
    /\ \A p \in Procs :
          /\ (/\ Finished(p)
              /\ req[p].kind = "create"
              /\ req[p].in.name.t = "undefined" \/ Blank(req[p].in.name))
             => /\ req[p].resp = Json(400, ErrorBody("Deck name is required"))
                /\ req[p].writes = 0
          /\ (/\ Finished(p)
              /\ req[p].kind = "update"
              /\ req[p].seen = "own"
              /\ Blank(req[p].in.name))
             => /\ req[p].resp = Json(400, ErrorBody("Deck name cannot be empty"))
                /\ req[p].writes = 0
          /\ (/\ Finished(p)
              /\ req[p].kind \in {"create", "update"}
              /\ req[p].resp.status \in {200, 201}
              /\ req[p].in.name.t = "string")
             => /\ Trimmed(req[p].resp.body.name)
                /\ \E i, j \in 0..Len(req[p].in.name.v) :
                      /\ i + Len(req[p].resp.body.name) + j = Len(req[p].in.name.v)
                      /\ req[p].in.name.v =
                            [k \in 1..i |-> " "] \o req[p].resp.body.name \o [k \in 1..j |-> " "]

\* An update given a name with spaces around it has stored the name without them.
C13_Witness ==
    \E p \in Procs :
        /\ Finished(p)
        /\ req[p].kind = "update"
        /\ req[p].resp.status = 200
        /\ req[p].in.name = Str(<<" ", "n", " ">>)
        /\ \E d \in decks : d.id = req[p].loc.deckId /\ d.name = <<"n">>


\* C14: a successful update that supplies only a name leaves the deck with the
\* cards it had before the request, and one that supplies only a card list leaves
\* the deck with the name it had: in the step in which such an update is answered
\* 200, the deck's rows, or its name, are those of before the request.
C14_PartialUpdateKeepsRest ==
    [][\A p \in Procs :
          (/\ req[p].kind = "update"
           /\ ~Finished(p)
           /\ req'[p].pc = "done"
           /\ req'[p].resp.status = 200)
          => /\ req[p].in.cards.t = "undefined" =>
                  /\ Len(deckCards'[req[p].loc.deckId]) = Len(req[p].before.cards)
                  /\ Range(deckCards'[req[p].loc.deckId]) = Range(req[p].before.cards)
                  /\ Range(req'[p].resp.body.deckCards) = Range(req[p].before.cards)
             /\ req[p].in.name.t = "undefined" =>
                  /\ req'[p].resp.body.name = req[p].before.name
                  /\ \E d \in decks' :
                        d.id = req[p].loc.deckId /\ d.name = req[p].before.name]_vars

\* After an update with cards only, then one with a name only, the deck has the
\* name of the second and the cards of the first.
C14_Witness ==
    /\ Finished(1)
    /\ req[1].kind = "update"
    /\ req[1].resp.status = 200
    /\ req[1].in.name.t = "undefined"
    /\ req[1].in.cards = Arr(ListB)
    /\ Finished(2)
    /\ req[2].kind = "update"
    /\ req[2].resp.status = 200
    /\ req[2].in.cards.t = "undefined"
    /\ req[2].in.name.t = "string"
    /\ rowsOf(1) = ListB
    /\ \E d \in decks : d.id = 1 /\ d.name = <<"n">>


\* A body that the validation of an update rejects: a blank name, or a card list
\* that is no array of ten distinct ids of cards.
InvalidBody(in) ==
    \/ Blank(in.name)
    \/ /\ in.cards.t # "undefined"
       /\ \/ NotTen(in.cards)
          \/ ~TenDistinct(in.cards.v)
          \/ Range(in.cards.v) \ CardIds # {}

\* C15: an update or delete of a deck that does not exist or is another user's is
\* answered 404 'Deck not found' by the ownership lookup, before any validation
\* and any write: also when the update carries a name or a card list that is
\* invalid, it is answered 404 and not 400.
C15_NotFoundBeforeValidation ==
    \A p \in Procs :
        (/\ Finished(p)
         /\ req[p].kind \in {"update", "delete"}
         /\ req[p].seen \in {"foreign", "absent"})
        => /\ req[p].resp = Json(404, ErrorBody("Deck not found"))
           /\ req[p].calls = 1
           /\ req[p].writes = 0

\* An update of another user's deck with a blank name and a repeated card has
\* been answered 404.
C15_Witness ==
    \E p \in Procs :
        /\ Finished(p)
        /\ req[p].kind = "update"
        /\ req[p].seen = "foreign"
        /\ Blank(req[p].in.name)
        /\ req[p].in.cards = Arr(ListDup)
        /\ InvalidBody(req[p].in)
        /\ req[p].resp.status = 404


\* A delete of deck deckId has been answered 200.
DeletedOk(deckId) ==
    \E p \in Procs :
        /\ Finished(p)
        /\ req[p].kind = "delete"
        /\ req[p].resp.status = 200
        /\ req[p].loc.deckId = deckId

\* C16: once a delete of a deck has been answered 200, the deck is gone for
\* good: every get, update or delete that looks the deck up from then on, the
\* store answering, is answered 404 'Deck not found', and every list answered
\* from then on is without it.
C16_DeletedStaysGone ==
    [][\A q \in Procs :
          /\ (/\ req[q].pc = "findFirst"
              /\ DeletedOk(req[q].loc.deckId)
              /\ req'[q].pc # "findFirst"
              /\ req'[q].threw = "")
             => /\ req'[q].pc = "done"
                /\ req'[q].resp = Json(404, ErrorBody("Deck not found"))
          /\ (/\ req[q].pc = "list.findMany"
              /\ req'[q].pc = "done"
              /\ req'[q].resp.status = 200)
             => \A i \in 1..Len(req'[q].resp.body) :
                    ~DeletedOk(req'[q].resp.body[i].id)]_vars

\* A delete of a deck has been answered 200 and a later get of it 404.
C16_Witness ==
    \E p, q \in Procs :
        /\ Finished(p)
        /\ req[p].kind = "delete"
        /\ req[p].resp.status = 200
        /\ Finished(q)
        /\ req[q].kind = "get"
        /\ req[q].loc.deckId = req[p].loc.deckId
        /\ req[q].seen = "absent"
        /\ req[q].resp.status = 404


\* A create answered 201 and a get by the same user answered 200 with the deck
\* created, no update having written to that deck.
CreatedThenRead(p, q) ==
    /\ Finished(p)
    /\ req[p].kind = "create"
    /\ req[p].resp.status = 201
    /\ Finished(q)
    /\ req[q].kind = "get"
    /\ req[q].resp.status = 200
    /\ req[q].loc.deckId = req[p].resp.body.id
    /\ req[q].user.userId = req[p].user.userId
    /\ \A o \in Procs :
          (req[o].kind = "update" /\ req[o].writes > 0) =>
              req[o].loc.deckId # req[p].resp.body.id

\* C17: creating a deck with ten distinct ids of cards and then getting it by its
\* id as the same user returns ten cards whose set of ids is the set supplied,
\* whatever the order.
C17_CreateGetRoundTrip ==
    \A p, q \in Procs :
        CreatedThenRead(p, q) =>
            /\ TenDistinct(req[p].in.cards.v)
            /\ Len(req[q].resp.body.deckCards) = DeckSize
            /\ Range(req[q].resp.body.deckCards) = Range(req[p].in.cards.v)

\* A deck created with the first ten ids in descending order has been read back.
C17_Witness ==
    \E p, q \in Procs :
        /\ CreatedThenRead(p, q)
        /\ req[p].in.cards = Arr(ListRev)
        /\ Range(req[q].resp.body.deckCards) = 1..DeckSize


\* The error texts the handlers word themselves.
FixedMessages ==
    {"Internal server error", "Deck not found", "Invalid deck ID",
     "Deck name is required", "Deck name cannot be empty",
     "Exactly 10 cards are required", "Duplicate card IDs are not allowed",
     "Some card IDs are invalid", "Email already in use",
     "Invalid email or password", "Email, username, and password are required",
     "Email and password are required"}

\* C18: no response carries the text of a store exception: a request one of whose
\* store calls threw, whatever the message, is answered with an error text the
\* handlers word themselves, 'Internal server error' or a fixed message.
C18_NoStoreTextInResponse ==
    \A p \in Procs :
        (Finished(p) /\ req[p].threw # "") =>
            /\ req[p].resp.status >= 400
            /\ req[p].resp.body.error # req[p].threw
            /\ req[p].resp.body.error \in FixedMessages


\* C19: every validation and ownership check comes before the first mutating
\* store call: a create, update or delete that is answered 400 or 404 has
\* issued no insert, update or delete.
C19_ChecksBeforeWrites ==
    \A p \in Procs :
        (/\ Finished(p)
         /\ req[p].kind \in {"create", "update", "delete"}
         /\ req[p].resp.status \in {400, 404})
        => req[p].writes = 0


\* The port configured is free when index.ts is loaded.
PortFree == PortOf(server.PORT) # 0 /\ PortOf(server.PORT) \notin server.taken

\* C20: the server listens only when index.ts is run directly: a process that
\* imports the module binds no port, and one that runs it with the configured
\* port free binds that port once, with no listen failing.
C20_ListensOnlyWhenMain ==
    /\ ~server.main => server.bound = <<>>
    /\ (server.main /\ PortFree /\ server.pc \in {"loaded", "serving", "crashed"}) =>
          /\ Len(server.bound) = 1
          /\ server.bound[1].port = PortOf(server.PORT)
          /\ server.errors = <<>>


\* The user a request acts for: the userId of its token, 0 when the gate refused it.
ActsFor(r) == IF r.user.t = "user" THEN r.user.userId ELSE 0

\* C21: no request touches a deck of another user: in every step a request
\* takes, every deck owned by a user other than the request's keeps its row and
\* its association rows, every deck row that appears is owned by the request's
\* user, and no deck changes owner.
C21_NoCrossUserWrites ==
    [][\A p \in Procs :
          req'[p] # req[p] =>
              /\ \A d \in decks :
                    d.userId # ActsFor(req'[p]) =>
                        /\ d \in decks'
                        /\ deckCards'[d.id] = deckCards[d.id]
              /\ \A e \in decks' \ decks : e.userId = ActsFor(req'[p])
              /\ \A d \in decks, e \in decks' : d.id = e.id => d.userId = e.userId]_vars

\* Blue's update of red's deck has been refused, red's deck being as seeded, and
\* a request of red has written to the store.
C21_Witness ==
    \E p, q \in Procs :
        /\ Finished(p)
        /\ req[p].kind = "update"
        /\ ActsFor(req[p]) = 2
        /\ req[p].loc.deckId = 1
        /\ req[p].seen = "foreign"
        /\ req[p].writes = 0
        /\ rowsOf(1) = ListA
        /\ Finished(q)
        /\ ActsFor(req[q]) = 1
        /\ req[q].loc.deckId = 2
        /\ req[q].seen = "foreign"


\* An update answered 200 that supplied a name and no card list.
NameOnlyOk(p) ==
    /\ Finished(p)
    /\ req[p].kind = "update"
    /\ req[p].resp.status = 200
    /\ req[p].in.name.t = "string"
    /\ req[p].in.cards.t = "undefined"

\* An update answered 200 that supplied a card list and no name.
CardsOnlyOk(q) ==
    /\ Finished(q)
    /\ req[q].kind = "update"
    /\ req[q].resp.status = 200
    /\ req[q].in.name.t = "undefined"
    /\ req[q].in.cards.t = "array"

\* C22: a name-only update and a cards-only update of one deck are independent:
\* once both have been answered 200 and no other request has written, the deck
\* has the name of the name-only update and the cards of the cards-only update,
\* in whatever order their store calls interleaved.
C22_PartialUpdatesIndependent ==
    \A p, q \in Procs :
        (/\ NameOnlyOk(p)
         /\ CardsOnlyOk(q)
         /\ req[p].loc.deckId = req[q].loc.deckId
         /\ \A o \in Procs : req[o].pc \in {"idle", "done"}
         /\ \A o \in Procs \ {p, q} : req[o].writes = 0
         /\ DeckExists(req[p].loc.deckId))
        => /\ rowsOf(req[p].loc.deckId) = req[q].in.cards.v
           /\ \E d \in decks :
                 d.id = req[p].loc.deckId /\ d.name = trim(req[p].in.name.v)

====
